---- MODULE Spec2Model ----
(***************************************************************************)
(* A model of the NeuroLens clinical front end: the ePWV estimator and its *)
(* classifier (EpwvCalculator.tsx), the NewVisit wizard (NewVisit.tsx),    *)
(* the retinal image intake (camera.ts, CameraInterface.tsx) and the       *)
(* analyze-retinal-image edge function.                                    *)
(*                                                                         *)
(* Numbers.  Ages and pressures are held in tenths (age 50 is 500, a MAP   *)
(* of 93.3 is 933).  An ePWV value is an exact fixed-point number in units *)
(* of 10^-11 m/s, the coarsest unit in which every term of the polynomial  *)
(* is an integer for inputs in tenths.  Such a number does not fit TLC's   *)
(* 32-bit integers, so it is held as a pair <<h, l>> meaning h*Base + l    *)
(* with 0 <= l < Base.  The arithmetic is exact; the code's IEEE doubles   *)
(* differ from it by rounding errors of the order of 10^-14.               *)
(***************************************************************************)
EXTENDS Integers, Sequences, FiniteSets, TLC

VARIABLES
    call,        \* the last application of a pure function: its name, arguments and result
    visit,       \* NewVisit component state
    calc,        \* EpwvCalculator component state (mounted at wizard step 4)
    db,          \* createVisit: the calls in flight, the last record passed, the rows inserted
    cam,         \* CameraInterface component state
    intake,      \* the capture, gallery and drop handlers that are awaiting something
    timers,      \* the pending 1500 ms quality-check timers of CameraInterface
    started,     \* how many capture, upload and drop handlers have been started
    edge,        \* the analyze-retinal-image request in flight, if any
    net,         \* useNetworkStatus: the platform's connectivity, the hook's state and its pending callbacks
    search       \* PatientSearch component state and its searches in flight

vars == <<call, visit, calc, db, cam, intake, timers, started, edge, net, search>>

\* the variables of the network hook and of the patient search
hookVars == <<net, search>>

\* the variables of the image pipeline
cameraVars == <<cam, intake, timers, started, edge>>

\* Tagged values: a JavaScript value that may be null, NaN, a number or a
\* text is a record whose field k says which
Null == [k |-> "null"]
NaN == [k |-> "NaN"]
Num(n) == [k |-> "num", v |-> n]
Text(s) == [k |-> "text", s |-> s]

----------------------------------------------------------------------------
(* Exact fixed-point arithmetic                                            *)

Base == 10 ^ 5

Norm(h, l) == <<h + (l \div Base), l % Base>>

\* k * v, for |k| small enough that k * Base fits a machine integer
Scale(k, v) == Norm(k * v[1], k * v[2])

Add(v, w) == Norm(v[1] + w[1], v[2] + w[2])

Sub(v, w) == Norm(v[1] - w[1], v[2] - w[2])

Less(v, w) == v[1] < w[1] \/ (v[1] = w[1] /\ v[2] < w[2])

Zero == <<0, 0>>

RECURSIVE Pow10(_)
Pow10(k) == IF k = 0 THEN <<0, 1>> ELSE Scale(10, Pow10(k - 1))

\* a value given in hundredths of a m/s (799 is 7.99 m/s), in units of 10^-11
Hundredths(n) == Scale(n, Pow10(9))

----------------------------------------------------------------------------
(* EpwvCalculator.tsx: the estimator and the classifier                    *)

\* Math.max(0, epwv)
Max0(v) == IF Less(v, Zero) THEN Zero ELSE v

\* calculateEpwv without the clamp of line 33
calculateEpwv_Unclamped(age, mbp) ==
    Sub(Add(Sub(Add(Sub(Scale(587, Pow10(8)),
                        Scale(age, Scale(402, Pow10(7)))),
                    Scale(age, Scale(age, Scale(4560, Pow10(3))))),
                Scale(mbp, Scale(age, Scale(age, Scale(2621, Pow10(0)))))),
            Scale(mbp, Scale(age, Scale(3176, Pow10(3))))),
        Scale(mbp, Scale(1832, Pow10(5))))

\* the polynomial as the code writes it: each coefficient is a mantissa in
\* thousandths times a power of ten; age and mbp are in tenths
calculateEpwv(age, mbp) ==
    LET t0 == Scale(587, Pow10(8))                                  \* 0.587
        t1 == Scale(age, Scale(402, Pow10(7)))                      \* 0.402 * age
        t2 == Scale(age, Scale(age, Scale(4560, Pow10(3))))         \* 4.560 * 0.001 * (age * age)
        t3 == Scale(mbp, Scale(age, Scale(age, Scale(2621, Pow10(0))))) \* 2.621 * 0.00001 * (age * age) * mbp
        t4 == Scale(mbp, Scale(age, Scale(3176, Pow10(3))))         \* 3.176 * 0.001 * age * mbp
        t5 == Scale(mbp, Scale(1832, Pow10(5)))                     \* 1.832 * 0.01 * mbp
        epwv == Sub(Add(Sub(Add(Sub(t0, t1), t2), t3), t4), t5)
    IN  Max0(epwv)

\* getRiskCategory with the thresholds taken inclusively
getRiskCategory_Inclusive(epwv, age) ==
    IF ~Less(Hundredths(800), epwv) THEN "Low"
    ELSE IF ~Less(Hundredths(1200), epwv) THEN "Medium"
    ELSE "High"

getRiskCategory(epwv, age) ==
    IF Less(epwv, Hundredths(800)) THEN "Low"
    ELSE IF Less(epwv, Hundredths(1200)) THEN "Medium"
    ELSE "High"

\* getConfidence with an outer envelope that reaches age 100
getConfidence_UpTo100(age, mbp) ==
    IF age < 180 \/ age > 1000 \/ mbp < 600 \/ mbp > 1200 THEN "Low"
    ELSE IF age < 250 \/ age > 800 \/ mbp < 700 \/ mbp > 1100 THEN "Moderate"
    ELSE "High"

\* getConfidence with the outer envelope taken exclusively
getConfidence_Exclusive(age, mbp) ==
    IF age <= 180 \/ age >= 900 \/ mbp <= 600 \/ mbp >= 1200 THEN "Low"
    ELSE IF age < 250 \/ age > 800 \/ mbp < 700 \/ mbp > 1100 THEN "Moderate"
    ELSE "High"

getConfidence(age, mbp) ==
    IF age < 180 \/ age > 900 \/ mbp < 600 \/ mbp > 1200 THEN "Low"
    ELSE IF age < 250 \/ age > 800 \/ mbp < 700 \/ mbp > 1100 THEN "Moderate"
    ELSE "High"

getInterpretation(riskCategory) ==
    CASE riskCategory = "Low" ->
            "Normal arterial stiffness - continue routine monitoring."
      [] riskCategory = "Medium" ->
            "Elevated arterial stiffness - consider lifestyle modifications and follow-up."
      [] riskCategory = "High" ->
            "Significantly elevated arterial stiffness - recommend clinical evaluation."
      [] OTHER -> "Assessment complete."

getRecommendations_Reordered(riskCategory) ==
    CASE riskCategory = "Low" ->
            << "Continue regular health screenings",
               "Maintain healthy lifestyle habits",
               "Monitor blood pressure regularly" >>
      [] riskCategory = "Medium" ->
            << "Lifestyle modifications recommended",
               "Consider dietary consultation",
               "Increase physical activity",
               "Follow-up in 6 months" >>
      [] riskCategory = "High" ->
            << "Clinical evaluation recommended",
               "Consider specialist referral",
               "Comprehensive cardiovascular assessment",
               "Immediate lifestyle interventions" >>
      [] OTHER -> << >>

getRecommendations(riskCategory) ==
    CASE riskCategory = "Low" ->
            << "Continue regular health screenings",
               "Maintain healthy lifestyle habits",
               "Monitor blood pressure regularly" >>
      [] riskCategory = "Medium" ->
            << "Lifestyle modifications recommended",
               "Consider dietary consultation",
               "Increase physical activity",
               "Follow-up in 6 months" >>
      [] riskCategory = "High" ->
            << "Clinical evaluation recommended",
               "Comprehensive cardiovascular assessment",
               "Consider specialist referral",
               "Immediate lifestyle interventions" >>
      [] OTHER -> << >>

----------------------------------------------------------------------------
(* Text fields.  A field value is a sequence of one-character strings, as  *)
(* typed into an <input type="number">.                                    *)

Digits == <<"0", "1", "2", "3", "4", "5", "6", "7", "8", "9">>

IsDigit(c) == \E d \in 1..10 : Digits[d] = c

DigitVal(c) == (CHOOSE d \in 1..10 : Digits[d] = c) - 1

\* the number of digits of s starting at position i
RECURSIVE DigitRun(_, _)
DigitRun(s, i) ==
    IF i <= Len(s) /\ IsDigit(s[i]) THEN 1 + DigitRun(s, i + 1) ELSE 0

\* the value of the n digits of s starting at position i
RECURSIVE DigitsValue(_, _, _)
DigitsValue(s, i, n) ==
    IF n = 0 THEN 0
    ELSE 10 * DigitsValue(s, i, n - 1) + DigitVal(s[i + n - 1])

\* JavaScript parseFloat, in tenths: an optional sign, the longest run of
\* digits, an optional fraction; NaN when there is no digit at all.  Only
\* the first digit of the fraction is kept (the unit of the model).
parseFloat(s) ==
    LET neg  == Len(s) >= 1 /\ s[1] = "-"
        i0   == IF neg THEN 2 ELSE 1
        n    == DigitRun(s, i0)
        dot  == i0 + n
        frac == IF dot <= Len(s) /\ s[dot] = "." THEN DigitRun(s, dot + 1) ELSE 0
        mag  == 10 * DigitsValue(s, i0, n)
                  + (IF frac > 0 THEN DigitVal(s[dot + 1]) ELSE 0)
    IN  IF n = 0 /\ frac = 0 THEN NaN
        ELSE IF neg THEN Num(0 - mag) ELSE Num(mag)

\* JavaScript parseInt, in units: an optional sign and the longest run of
\* digits; what follows the digits is ignored; NaN when there is no digit
parseInt(s) ==
    LET neg == Len(s) >= 1 /\ s[1] = "-"
        i0  == IF neg THEN 2 ELSE 1
        n   == DigitRun(s, i0)
    IN  IF n = 0 THEN NaN
        ELSE IF neg THEN Num(0 - DigitsValue(s, i0, n)) ELSE Num(DigitsValue(s, i0, n))

\* the decimal digits of a natural number
RECURSIVE NatToString(_)
NatToString(n) ==
    IF n < 10 THEN <<Digits[n + 1]>>
    ELSE Append(NatToString(n \div 10), Digits[(n % 10) + 1])

\* toFixed1 cutting the further decimals off instead of rounding
toFixed1_Truncating(n) ==
    LET t   == n \div 3
        mag == IF t < 0 THEN 0 - t ELSE t
        txt == NatToString(mag \div 10) \o <<".">> \o NatToString(mag % 10)
    IN  IF t < 0 THEN <<"-">> \o txt ELSE txt

\* Number.prototype.toFixed(1) of the value n/3 tenths (n/30 units): the
\* nearest tenth (n/3 is never half-way between two tenths), as text
toFixed1(n) ==
    LET t   == (n + 1) \div 3
        mag == IF t < 0 THEN 0 - t ELSE t
        txt == NatToString(mag \div 10) \o <<".">> \o NatToString(mag % 10)
    IN  IF t < 0 THEN <<"-">> \o txt ELSE txt

\* JavaScript truthiness of a number: neither 0 nor NaN
Truthy(x) == x.k = "num" /\ x.v # 0

\* x > 0 for a number that may be NaN (every comparison with NaN is false)
Positive(x) == x.k = "num" /\ x.v > 0

----------------------------------------------------------------------------
(* NewVisit.tsx                                                            *)

\* getMeanBP, as a function of the two text fields: the toFixed(1) text,
\* or Null
getMeanBP(systolic, diastolic) ==
    LET sys == parseFloat(systolic)
        dia == parseFloat(diastolic)
    IN  IF Truthy(sys) /\ Truthy(dia)
        THEN Text(toFixed1(sys.v + 2 * dia.v))   \* ((sys + 2 * dia) / 3).toFixed(1)
        ELSE Null

----------------------------------------------------------------------------
(* camera.ts: the image intake                                             *)

minSize == 512          \* pixels
maxSize == 4096         \* pixels

Str(text) == [k |-> "string", s |-> text]

Dimensions(w, h) == [k |-> "dimensions", width |-> w, height |-> h]

\* validateRetinalImage with the lower bound taken exclusively
validateRetinalImage_Exclusive(img) ==
    IF ~img.decodes
    THEN [isValid |-> FALSE,
          reason |-> Str("Failed to load image. File may be corrupted."),
          dimensions |-> Null]
    ELSE IF img.width <= minSize \/ img.height <= minSize
    THEN [isValid |-> FALSE,
          reason |-> Str("Image too small. Minimum size is 512x512px"),
          dimensions |-> Dimensions(img.width, img.height)]
    ELSE IF img.width > maxSize \/ img.height > maxSize
    THEN [isValid |-> FALSE,
          reason |-> Str("Image too large. Maximum size is 4096x4096px"),
          dimensions |-> Dimensions(img.width, img.height)]
    ELSE [isValid |-> TRUE, reason |-> Null,
          dimensions |-> Dimensions(img.width, img.height)]

\* validateRetinalImage: what its promise resolves to, for an image that
\* the browser decodes (img.onload, with the decoded width and height) or
\* fails to decode (img.onerror).  The promise has no reject path.
validateRetinalImage(img) ==
    IF ~img.decodes
    THEN [isValid |-> FALSE,
          reason |-> Str("Failed to load image. File may be corrupted."),
          dimensions |-> Null]
    ELSE IF img.width < minSize \/ img.height < minSize
    THEN [isValid |-> FALSE,
          reason |-> Str("Image too small. Minimum size is 512x512px"),
          dimensions |-> Dimensions(img.width, img.height)]
    ELSE IF img.width > maxSize \/ img.height > maxSize
    THEN [isValid |-> FALSE,
          reason |-> Str("Image too large. Maximum size is 4096x4096px"),
          dimensions |-> Dimensions(img.width, img.height)]
    ELSE [isValid |-> TRUE, reason |-> Null,
          dimensions |-> Dimensions(img.width, img.height)]

\* a classifier that remembers it has been run: from the second evaluation
\* on it reports its confidence as Low
EpwvResult_Remembering(age, mbp) ==
    LET epwv == calculateEpwv(age, mbp)
        riskCategory == getRiskCategory(epwv, age)
    IN  [ k               |-> "result",
          epwv            |-> epwv,
          riskCategory    |-> riskCategory,
          confidence      |-> IF call.op = "classify" THEN "Low"
                              ELSE getConfidence(age, mbp),
          interpretation  |-> getInterpretation(riskCategory),
          recommendations |-> getRecommendations(riskCategory) ]

\* a classifier whose advice also looks at the age
EpwvResult_ByAge(age, mbp) ==
    LET epwv == calculateEpwv(age, mbp)
        riskCategory == getRiskCategory(epwv, age)
    IN  [ k               |-> "result",
          epwv            |-> epwv,
          riskCategory    |-> riskCategory,
          confidence      |-> getConfidence(age, mbp),
          interpretation  |-> getInterpretation(riskCategory),
          recommendations |-> IF age > 1150
                              THEN Append(getRecommendations(riskCategory),
                                          "Geriatric review recommended")
                              ELSE getRecommendations(riskCategory) ]

\* the body of the 1500 ms timer of EpwvCalculator's effect, for the age and
\* mbp the effect closed over
EpwvResult(age, mbp) ==
    LET epwv == calculateEpwv(age, mbp)
        riskCategory == getRiskCategory(epwv, age)
    IN  [ k               |-> "result",
          epwv            |-> epwv,
          riskCategory    |-> riskCategory,
          confidence      |-> getConfidence(age, mbp),
          interpretation  |-> getInterpretation(riskCategory),
          recommendations |-> getRecommendations(riskCategory) ]

\* a Response of the edge function
Response(status, body) == [status |-> status, body |-> body]

\* a handler that answers every gateway failure alike
gatewayResponse_Generic(status, toolCall, parses, a) ==
    IF status \notin 200..299 \/ ~toolCall
    THEN Response(500, Str("AI gateway error"))
    ELSE Response(200, a)

\* index.ts lines 140-179: the response made from the gateway's answer, which
\* is its status, whether its body holds a tool call, whether the arguments
\* of the tool call parse as JSON, and what they parse to
gatewayResponse(status, toolCall, parses, a) ==
    IF status \notin 200..299
    THEN IF status = 429
         THEN Response(429, Str("Rate limits exceeded, please try again later."))
         ELSE IF status = 402
         THEN Response(402, Str("Payment required, please add funds to your Lovable AI workspace."))
         ELSE Response(500, Str("AI gateway error"))
    ELSE IF ~toolCall
    THEN Response(500, Str("No tool call returned from AI"))
    ELSE IF ~parses
    THEN Response(500, Str("Unexpected token in JSON"))
    ELSE Response(200, a)

\* what the external model may put in its tool-call arguments
Analysis(quality, risk, level, confidence) ==
    [ k |-> "analysis", imageQualityScore |-> quality,
      strokeRiskPercentage |-> risk, riskLevel |-> level,
      confidence |-> confidence ]

AnalysisOutputs ==
    { Analysis(90, 12, "Low", 80), Analysis(101, 250, "Severe", -1) }

\* index.ts: validateImageData, /^data:image\/(jpeg|jpg|png);base64,/, on
\* the text that RegExp.test makes of its argument
imageRegexTest(imageData) ==
    imageData \in { "data:image/jpeg;base64,", "data:image/jpg;base64,",
                    "data:image/png;base64," }

\* what the handler produces: a Response after so many calls of the gateway,
\* or an exception
Responded(status, body, fetches) ==
    [k |-> "response", status |-> status, body |-> body, fetches |-> fetches]

Thrown(message, fetches) ==
    [k |-> "thrown", message |-> message, fetches |-> fetches]

\* index.ts lines 19-172, the try block: req.json() and the destructuring
\* of its value, the key, the image check, the fetch and the gateway's answer
tryBlock(req, keySet, gw) ==
    IF req.body.k = "notJson"
    THEN Thrown("Unexpected token in JSON", 0)
    ELSE IF req.body.k = "null"
    THEN Thrown("Cannot destructure property 'imageData'", 0)
    ELSE IF ~keySet
    THEN Thrown("LOVABLE_API_KEY is not configured", 0)
    ELSE IF ~imageRegexTest(req.body.imageData)
    THEN Responded(400, Str("Invalid image format. Please provide a valid JPEG or PNG image."), 0)
    ELSE IF gw.k = "unreachable"
    THEN Thrown("error sending request", 1)
    ELSE IF gw.status \in 200..299 /\ gw.k = "text"
    THEN Thrown("Unexpected token in JSON", 1)
    ELSE IF gw.status \in 200..299 /\ ~gw.toolCall
    THEN Thrown("No tool call returned from AI", 1)
    ELSE IF gw.status \in 200..299 /\ ~gw.parses
    THEN Thrown("Unexpected token in JSON", 1)
    ELSE LET r == gatewayResponse(gw.status, gw.toolCall, gw.parses, gw.a)
         IN  Responded(r.status, r.body, 1)

\* a handler without its catch block
serve_Uncaught(req, keySet, gw) ==
    IF req.method = "OPTIONS"
    THEN Responded(200, Null, 0)
    ELSE tryBlock(req, keySet, gw)

\* index.ts lines 13-181: the handler
serve(req, keySet, gw) ==
    IF req.method = "OPTIONS"
    THEN Responded(200, Null, 0)
    ELSE LET r == tryBlock(req, keySet, gw)
         IN  IF r.k = "thrown"
             THEN Responded(500, Str(r.message), r.fetches)
             ELSE r

----------------------------------------------------------------------------
(* The pure functions, applied to inputs drawn from bounded sets           *)

MaxAge == 120          \* years
MaxMbp == 130          \* mmHg
MaxEpwv == 1300        \* hundredths of a m/s
MaxPressure == 150     \* mmHg

\* ages in tenths of a year: every whole year and the halves next to the
\* thresholds of getConfidence
AgeInputs == {10 * y : y \in 0..MaxAge} \cup {175, 245, 805, 905}

\* mean pressures in tenths of a mmHg: every whole value, the tenths next to
\* the thresholds of getConfidence, and the two MAPs of the spec's examples
MbpInputs == {10 * m : m \in 0..MaxMbp}
                 \cup {599, 601, 699, 701, 933, 1067, 1099, 1101, 1199, 1201}

\* an age or pressure field holding the whole number n > 0
WholeField(n) == NatToString(n)

\* field values that are missing, not a number, zero, negative or fractional
OddFields ==
    { <<>>, <<"a", "b", "c">>, <<"-">>, <<"0">>, <<"0", ".", "0">>,
      <<"-", "1", "0">>, <<"-", "8", "0">>, <<"-", "3", "0", "0">>,
      <<"1", "2", "0", ".", "5">>, <<"8", "0", ".", "5">> }

PureFields == OddFields \cup {WholeField(n) : n \in {80, 90, 120, 140}}

NoCall == [op |-> "none"]

\* The functions are stateless, so one application per behaviour covers
\* them: each action applies one function to one input and records the result.
ApplyCalculateEpwv ==
    /\ call = NoCall
    /\ \E age \in AgeInputs, mbp \in MbpInputs :
        call' = [op |-> "calculateEpwv", age |-> age, mbp |-> mbp,
                 ret |-> calculateEpwv(age, mbp)]
    /\ UNCHANGED <<visit, calc, db, cameraVars, hookVars>>

ApplyGetRiskCategory ==
    /\ call = NoCall
    /\ \E e \in 0..MaxEpwv, age \in {0, 300, 950} :
        call' = [op |-> "getRiskCategory", epwv |-> e, age |-> age,
                 ret |-> getRiskCategory(Hundredths(e), age)]
    /\ UNCHANGED <<visit, calc, db, cameraVars, hookVars>>

ApplyGetConfidence ==
    /\ call = NoCall
    /\ \E age \in AgeInputs, mbp \in MbpInputs :
        call' = [op |-> "getConfidence", age |-> age, mbp |-> mbp,
                 ret |-> getConfidence(age, mbp)]
    /\ UNCHANGED <<visit, calc, db, cameraVars, hookVars>>

ApplyGetMeanBP ==
    /\ call = NoCall
    /\ \E s, d \in PureFields \cup {WholeField(n) : n \in 1..MaxPressure} :
        call' = [op |-> "getMeanBP", systolic |-> s, diastolic |-> d,
                 ret |-> getMeanBP(s, d)]
    /\ UNCHANGED <<visit, calc, db, cameraVars, hookVars>>

\* database.ts createVisit, the mean_bp it inserts for a payload whose
\* systolic and diastolic are numbers in units: null unless both are truthy,
\* else parseFloat(((systolic + 2 * diastolic) / 3).toFixed(1)), in tenths
mean_bp(visitData) ==
    IF Truthy(visitData.systolic) /\ Truthy(visitData.diastolic)
    THEN parseFloat(toFixed1(10 * visitData.systolic.v + 20 * visitData.diastolic.v))
    ELSE Null

\* handleCompleteVisit and createVisit for the two pressure fields: the
\* payload takes parseInt of each field, the insert adds mean_bp; beside
\* it, what getMeanBP shows for the same fields
ApplyCreateVisit ==
    /\ call = NoCall
    /\ \E s, d \in PureFields \cup {WholeField(n) : n \in 1..MaxPressure} :
        LET visitData == [systolic |-> parseInt(s), diastolic |-> parseInt(d)]
        IN  call' = [op |-> "createVisit", systolic |-> s, diastolic |-> d,
                     shown |-> getMeanBP(s, d),
                     ret |-> [systolic |-> visitData.systolic,
                              diastolic |-> visitData.diastolic,
                              mean_bp |-> mean_bp(visitData)]]
    /\ UNCHANGED <<visit, calc, db, cameraVars, hookVars>>

\* widths and heights around the two limits
DimInputs == {1, 400, 511, 512, 513, 1024, 1920, 4095, 4096, 4097, 5000}

ApplyValidateRetinalImage ==
    /\ call = NoCall
    /\ \E d \in BOOLEAN, w \in DimInputs, h \in DimInputs :
        call' = [op |-> "validateRetinalImage",
                 img |-> [decodes |-> d, width |-> w, height |-> h],
                 settled |-> "resolved",
                 ret |-> validateRetinalImage([decodes |-> d, width |-> w, height |-> h])]
    /\ UNCHANGED <<visit, calc, db, cameraVars, hookVars>>

\* the classifier as EpwvCalculator's effect runs it, for every age and MAP
ApplyClassify ==
    /\ call = NoCall
    /\ \E age \in AgeInputs, mbp \in MbpInputs :
        call' = [op |-> "classify", age |-> age, mbp |-> mbp,
                 ret |-> EpwvResult(age, mbp)]
    /\ UNCHANGED <<visit, calc, db, cameraVars, hookVars>>

\* the classifier run a second time on the inputs of a first run
ApplyClassifyAgain ==
    /\ call.op = "classify"
    /\ call' = [op |-> "classifyAgain", age |-> call.age, mbp |-> call.mbp,
                first |-> call.ret, ret |-> EpwvResult(call.age, call.mbp)]
    /\ UNCHANGED <<visit, calc, db, cameraVars, hookVars>>

\* what the gateway may answer: ok and not ok statuses
GatewayStatuses == {200, 201, 400, 401, 402, 404, 429, 500, 503}

ApplyGatewayResponse ==
    /\ call = NoCall
    /\ \E status \in GatewayStatuses, toolCall \in BOOLEAN, parses \in BOOLEAN,
          a \in AnalysisOutputs :
        call' = [op |-> "gatewayResponse", status |-> status,
                 toolCall |-> toolCall, parses |-> parses,
                 ret |-> gatewayResponse(status, toolCall, parses, a)]
    /\ UNCHANGED <<visit, calc, db, cameraVars, hookVars>>

\* the requests: a preflight, a POST of something that is not JSON, of
\* null, of an object without imageData, and of objects with an image
Requests ==
    { [method |-> "OPTIONS", body |-> [k |-> "notJson"]] }
    \cup { [method |-> "POST", body |-> b] :
             b \in { [k |-> "notJson"], [k |-> "null"] }
                   \cup { [k |-> "object", imageData |-> i] :
                            i \in { "undefined", "data:image/jpeg;base64,",
                                    "data:image/jpg;base64,", "data:image/png;base64,",
                                    "data:image/gif;base64,", "/9j/4AAQSkZJRg" } } }

\* what the gateway does with the one request it may get: nothing (the
\* fetch fails), an answer that is not JSON, or an answer with or without a
\* tool call whose arguments parse or do not
GatewayAnswers ==
    { [k |-> "unreachable"] }
    \cup { [k |-> "text", status |-> st] : st \in GatewayStatuses }
    \cup { [k |-> "json", status |-> st, toolCall |-> t, parses |-> ps, a |-> a] :
             st \in GatewayStatuses, t \in BOOLEAN, ps \in BOOLEAN, a \in AnalysisOutputs }

ApplyServe ==
    /\ call = NoCall
    /\ \E req \in Requests, keySet \in BOOLEAN, gw \in GatewayAnswers :
        call' = [op |-> "serve", req |-> req, keySet |-> keySet, gw |-> gw,
                 ret |-> serve(req, keySet, gw)]
    /\ UNCHANGED <<visit, calc, db, cameraVars, hookVars>>

\* a component that is not mounted has no state
VisitIdle == [mounted |-> FALSE]
CalcIdle == [mounted |-> FALSE]
CamIdle == [mounted |-> FALSE]
NetIdle == [mounted |-> FALSE]
SearchIdle == [mounted |-> FALSE]

\* no createVisit call has been made
DbIdle == [pending |-> 0, calls |-> 0, last |-> Null, rows |-> 0]

PureInit ==
    /\ call = NoCall
    /\ visit = VisitIdle
    /\ calc = CalcIdle
    /\ db = DbIdle
    /\ cam = CamIdle /\ intake = << >> /\ timers = 0 /\ started = 0 /\ edge = Null
    /\ net = NetIdle /\ search = SearchIdle

PureNext ==
    \/ ApplyCalculateEpwv
    \/ ApplyGetRiskCategory
    \/ ApplyGetConfidence
    \/ ApplyGetMeanBP
    \/ ApplyValidateRetinalImage
    \/ ApplyClassify
    \/ ApplyClassifyAgain
    \/ ApplyServe
    \/ ApplyCreateVisit
    \/ ApplyGatewayResponse

SpecPure == PureInit /\ [][PureNext]_vars

----------------------------------------------------------------------------
(* Claims about the pure functions, checked under SpecPure                 *)

\* C1: getRiskCategory maps every ePWV value to exactly one category, by
\* the ePWV alone whatever the age: Low below 8.00 m/s, Medium from 8.00 up
\* to but excluding 12.00, High from 12.00 on.
C1_RiskCategoryByThresholds ==
    call.op = "getRiskCategory" =>
        /\ call.ret \in {"Low", "Medium", "High"}
        /\ (call.ret = "Low" <=> call.epwv < 800)
        /\ (call.ret = "Medium" <=> (800 <= call.epwv /\ call.epwv < 1200))
        /\ (call.ret = "High" <=> call.epwv >= 1200)

\* the boundary 8.00 of C1 is classified, as Medium, for a non-zero age
C1_Witness ==
    call.op = "getRiskCategory" /\ call.epwv = 800 /\ call.age = 950
        /\ call.ret = "Medium"

\* C2: getConfidence is High exactly when 25 <= age <= 80 and
\* 70 <= MAP <= 110, Low exactly when age < 18 or age > 90 or MAP < 60 or
\* MAP > 120, and Moderate in every other case.
C2_ConfidenceBands ==
    call.op = "getConfidence" =>
        LET inner == 250 <= call.age /\ call.age <= 800
                        /\ 700 <= call.mbp /\ call.mbp <= 1100
            outer == 180 <= call.age /\ call.age <= 900
                        /\ 600 <= call.mbp /\ call.mbp <= 1200
        IN  /\ (call.ret = "High" <=> inner)
            /\ (call.ret = "Low" <=> ~outer)
            /\ (call.ret = "Moderate" <=> (outer /\ ~inner))

\* the corner (age 18, MAP 60) of C2 is Moderate
C2_Witness ==
    call.op = "getConfidence" /\ call.age = 180 /\ call.mbp = 600
        /\ call.ret = "Moderate"

\* The polynomial of the specification, 0.587 - 0.402 a + 0.00456 a^2
\* - 0.00002621 a^2 m + 0.003176 a m - 0.01832 m, split into the sum of its
\* positive terms and the sum of its negative terms (units of 10^-11, a and
\* m in tenths).
PolyPositive(a, m) ==
    Add(Scale(587, Pow10(8)),
        Add(Scale(a, Scale(a, Scale(456, Pow10(4)))),
            Scale(a, Scale(m, Scale(3176, Pow10(3))))))

PolyNegative(a, m) ==
    Add(Scale(a, Scale(402, Pow10(7))),
        Add(Scale(a, Scale(a, Scale(m, <<0, 2621>>))),
            Scale(m, Scale(1832, Pow10(5)))))

\* C3: calculateEpwv returns max(0, polynomial): the polynomial's value
\* where that is not negative and exactly 0 where it is, so the result is
\* never negative.
C3_EpwvIsClampedPolynomial ==
    call.op = "calculateEpwv" =>
        LET pos == PolyPositive(call.age, call.mbp)
            neg == PolyNegative(call.age, call.mbp)
        IN  /\ ~Less(call.ret, Zero)
            /\ (Less(pos, neg) => call.ret = Zero)
            /\ (~Less(pos, neg) => Add(call.ret, neg) = pos)

\* age 50 and MAP 93.3, where the polynomial is negative, give exactly 0
C3_Witness ==
    call.op = "calculateEpwv" /\ call.age = 500 /\ call.mbp = 933
        /\ Less(PolyPositive(500, 933), PolyNegative(500, 933))
        /\ call.ret = Zero

\* C4: for positive systolic and diastolic readings getMeanBP returns
\* (systolic + 2*diastolic)/3 rounded to one decimal place, as a text with
\* one decimal: 120/80 gives 93.3 and 140/90 gives 106.7.
C4_MeanBPRounded ==
    (/\ call.op = "getMeanBP"
     /\ Positive(parseFloat(call.systolic))
     /\ Positive(parseFloat(call.diastolic))) =>
        LET n == parseFloat(call.systolic).v + 2 * parseFloat(call.diastolic).v
        IN  /\ call.ret.k = "text"
            /\ Len(call.ret.s) >= 3
            /\ call.ret.s[Len(call.ret.s) - 1] = "."
            /\ LET t == parseFloat(call.ret.s).v    \* the result, in tenths
               IN  3 * t - n \in {-1, 0, 1}         \* |t - n/3| <= 1/2
            /\ (call.systolic = <<"1", "2", "0">> /\ call.diastolic = <<"8", "0">>
                    => call.ret.s = <<"9", "3", ".", "3">>)
            /\ (call.systolic = <<"1", "4", "0">> /\ call.diastolic = <<"9", "0">>
                    => call.ret.s = <<"1", "0", "6", ".", "7">>)

\* 140/90 gives 106.7, a value that rounds up
C4_Witness ==
    call.op = "getMeanBP" /\ call.systolic = <<"1", "4", "0">>
        /\ call.diastolic = <<"9", "0">>
        /\ call.ret = Text(<<"1", "0", "6", ".", "7">>)

\* C5: getMeanBP yields no value (null) whenever systolic or diastolic is
\* missing, non-numeric, zero or negative.
C5_MeanBPNullUnlessPositive ==
    (/\ call.op = "getMeanBP"
     /\ (~Positive(parseFloat(call.systolic)) \/ ~Positive(parseFloat(call.diastolic))))
        => call.ret = Null

\* C9: validateRetinalImage resolves isValid = TRUE exactly when the image
\* decodes and its width and height both lie in 512..4096; an image with a
\* dimension out of range gets a too-small or too-large reason with its
\* decoded width and height; an image that does not decode gets the
\* 'file may be corrupted' reason and no dimensions; the promise always
\* resolves.
C9_ValidateRetinalImage ==
    call.op = "validateRetinalImage" =>
        LET i == call.img
            inRange == 512 <= i.width /\ i.width <= 4096
                          /\ 512 <= i.height /\ i.height <= 4096
        IN  /\ call.settled = "resolved"
            /\ (call.ret.isValid <=> (i.decodes /\ inRange))
            /\ (i.decodes /\ ~inRange) =>
                  /\ call.ret.reason \in
                        { Str("Image too small. Minimum size is 512x512px"),
                          Str("Image too large. Maximum size is 4096x4096px") }
                  /\ call.ret.dimensions = Dimensions(i.width, i.height)
            /\ ~i.decodes =>
                  /\ call.ret.reason = Str("Failed to load image. File may be corrupted.")
                  /\ call.ret.dimensions = Null

\* a 512 x 4096 image, on both limits, is accepted
C9_Witness ==
    call.op = "validateRetinalImage" /\ call.img.decodes
        /\ call.img.width = 512 /\ call.img.height = 4096
        /\ call.ret.isValid

----------------------------------------------------------------------------
(* NewVisit.tsx, with the EpwvCalculator it mounts at step 4 and the       *)
(* createVisit calls it makes.  The fields that no step reads back         *)
(* (technician, location, heart rate, height, weight, temperature, SpO2,   *)
(* diseases) are left out.                                                 *)

MaxPending == 2        \* createVisit calls in flight at once
MaxCreates == 2        \* createVisit calls in a behaviour

Patients == {"p1"}

\* what the user may type as the reason: nothing, blanks, a word
Reasons == { <<>>, <<" ", " ">>, <<"F", "U">> }

\* what the user may type into age, systolic and diastolic: nothing, zero,
\* a negative number, a plausible reading
AgeFields == { <<>>, <<"0">>, <<"-", "5">>, <<"6", "7">>, <<"9", "5">> }
SystolicFields == { <<>>, <<"0">>, <<"-", "1", "0">>, <<"1", "4", "0">> }
DiastolicFields == { <<>>, <<"0">>, <<"-", "9", "0">>, <<"9", "0">> }

\* String.prototype.trim
RECURSIVE TrimLeft(_)
TrimLeft(s) == IF s # <<>> /\ Head(s) = " " THEN TrimLeft(Tail(s)) ELSE s

RECURSIVE TrimRight(_)
TrimRight(s) ==
    IF s # <<>> /\ s[Len(s)] = " " THEN TrimRight(SubSeq(s, 1, Len(s) - 1)) ELSE s

Trim(s) == TrimRight(TrimLeft(s))

\* useState initial values, lines 22-42
VisitInit ==
    [ mounted         |-> TRUE,
      currentStep     |-> 0,
      selectedPatient |-> Null,
      reason          |-> <<>>,
      age             |-> <<>>,
      systolic        |-> <<>>,
      diastolic       |-> <<>>,
      epwvData        |-> [result |-> Null, riskLevel |-> "", recommendations |-> ""] ]

\* canProceed that lets step 1 pass whatever the reason is
canProceed_AnyReason(v) ==
    CASE v.currentStep = 0 -> v.selectedPatient # Null
      [] v.currentStep = 1 -> TRUE
      [] v.currentStep = 2 -> v.age # <<>> /\ v.systolic # <<>> /\ v.diastolic # <<>>
      [] v.currentStep = 3 -> TRUE
      [] v.currentStep = 4 -> TRUE
      [] OTHER -> FALSE

canProceed(v) ==
    CASE v.currentStep = 0 -> v.selectedPatient # Null
      [] v.currentStep = 1 -> Trim(v.reason) # <<>>
      [] v.currentStep = 2 -> v.age # <<>> /\ v.systolic # <<>> /\ v.diastolic # <<>>
      [] v.currentStep = 3 -> TRUE
      [] v.currentStep = 4 -> TRUE
      [] OTHER -> FALSE

\* the props NewVisit passes at step 4: parseFloat(visitData.age) and
\* parseFloat(getMeanBP() || "0")
AgeProp(v) == parseFloat(v.age)

MbpProp(v) ==
    LET mean == getMeanBP(v.systolic, v.diastolic)
    IN  parseFloat(IF mean = Null THEN <<"0">> ELSE mean.s)

\* EpwvCalculator after its first render and effect: the effect starts a
\* calculation only when age > 0 && mbp > 0
CalcMount(age, mbp) ==
    LET start == Positive(age) /\ Positive(mbp)
    IN  [ mounted       |-> TRUE,
          age           |-> age,
          mbp           |-> mbp,
          result        |-> Null,
          isCalculating |-> start,
          timers        |-> IF start THEN << [age |-> age.v, mbp |-> mbp.v] >> ELSE << >> ]

\* handlePatientSelect, from the PatientSearch shown at step 0
SelectPatient ==
    /\ visit.mounted /\ visit.currentStep = 0
    /\ \E p \in Patients :
        visit' = [visit EXCEPT !.selectedPatient = [k |-> "patient", id |-> p],
                               !.currentStep = 1]
    /\ UNCHANGED <<call, calc, db, cameraVars, hookVars>>

\* the reason input of step 1
EditReason ==
    /\ visit.mounted /\ visit.currentStep = 1
    /\ \E r \in Reasons : visit' = [visit EXCEPT !.reason = r]
    /\ UNCHANGED <<call, calc, db, cameraVars, hookVars>>

\* the age, systolic and diastolic inputs of step 2
EditAge ==
    /\ visit.mounted /\ visit.currentStep = 2
    /\ \E a \in AgeFields : visit' = [visit EXCEPT !.age = a]
    /\ UNCHANGED <<call, calc, db, cameraVars, hookVars>>

EditSystolic ==
    /\ visit.mounted /\ visit.currentStep = 2
    /\ \E x \in SystolicFields : visit' = [visit EXCEPT !.systolic = x]
    /\ UNCHANGED <<call, calc, db, cameraVars, hookVars>>

EditDiastolic ==
    /\ visit.mounted /\ visit.currentStep = 2
    /\ \E x \in DiastolicFields : visit' = [visit EXCEPT !.diastolic = x]
    /\ UNCHANGED <<call, calc, db, cameraVars, hookVars>>

\* the right-hand button below step 4: "Next Step"
NextStep ==
    /\ visit.mounted /\ visit.currentStep < 4
    /\ canProceed(visit)
    /\ visit' = [visit EXCEPT !.currentStep = visit.currentStep + 1]
    /\ calc' = IF visit'.currentStep = 4
               THEN CalcMount(AgeProp(visit), MbpProp(visit))
               ELSE calc
    /\ UNCHANGED <<call, db, cameraVars, hookVars>>

\* the left-hand button: "Previous", or "Cancel" (onBack) at step 0
PreviousStep ==
    /\ visit.mounted
    /\ visit' = IF visit.currentStep > 0
                THEN [visit EXCEPT !.currentStep = visit.currentStep - 1]
                ELSE VisitIdle
    /\ calc' = CalcIdle          \* leaving step 4 unmounts EpwvCalculator
    /\ UNCHANGED <<call, db, cameraVars, hookVars>>

\* the arrow in the header: onBack at any step
BackToDashboard ==
    /\ visit.mounted
    /\ visit' = VisitIdle
    /\ calc' = CalcIdle
    /\ UNCHANGED <<call, db, cameraVars, hookVars>>

\* Dashboard renders a new NewVisit
OpenNewVisit ==
    /\ ~visit.mounted
    /\ visit' = VisitInit
    /\ UNCHANGED <<call, calc, db, cameraVars, hookVars>>

\* a 1500 ms timer of the mounted EpwvCalculator expires
CalcTimerFires ==
    /\ calc.mounted /\ calc.timers # << >>
    /\ calc' = [calc EXCEPT
                  !.result = EpwvResult(Head(calc.timers).age, Head(calc.timers).mbp),
                  !.isCalculating = FALSE,
                  !.timers = Tail(calc.timers)]
    /\ UNCHANGED <<call, visit, db, cameraVars, hookVars>>

\* truthiness of a string
OrNull(text) == IF text = "" THEN Null ELSE [k |-> "string", s |-> text]

\* visitPayload of handleCompleteVisit
visitPayload(v) ==
    [ patient_id           |-> v.selectedPatient.id,
      reason               |-> v.reason,
      age                  |-> IF v.age # <<>> THEN parseInt(v.age) ELSE Null,
      systolic             |-> parseInt(v.systolic),
      diastolic            |-> parseInt(v.diastolic),
      epwv_result          |-> v.epwvData.result,
      epwv_risk_level      |-> OrNull(v.epwvData.riskLevel),
      epwv_recommendations |-> OrNull(v.epwvData.recommendations) ]

\* the right-hand button at step 4, "Complete Visit": handleCompleteVisit up
\* to its await of createVisit
CompleteVisit ==
    /\ visit.mounted /\ visit.currentStep = 4
    /\ canProceed(visit)
    /\ visit.selectedPatient # Null
    /\ db.pending < MaxPending /\ db.calls < MaxCreates
    /\ db' = [db EXCEPT !.pending = db.pending + 1,
                        !.calls = db.calls + 1,
                        !.last = visitPayload(visit)]
    /\ UNCHANGED <<call, visit, calc, cameraVars, hookVars>>

\* createVisit resolves: the toast, then onBack() unmounts NewVisit
CreateVisitResolves ==
    /\ db.pending > 0
    /\ db' = [db EXCEPT !.pending = db.pending - 1, !.rows = db.rows + 1]
    /\ visit' = VisitIdle
    /\ calc' = CalcIdle
    /\ UNCHANGED <<call, cameraVars, hookVars>>

\* createVisit rejects (no user, or the insert fails): the toast only
CreateVisitRejects ==
    /\ db.pending > 0
    /\ db' = [db EXCEPT !.pending = db.pending - 1]
    /\ UNCHANGED <<call, visit, calc, cameraVars, hookVars>>

VisitSpecInit ==
    /\ call = NoCall
    /\ visit = VisitInit
    /\ calc = CalcIdle
    /\ db = DbIdle
    /\ cam = CamIdle /\ intake = << >> /\ timers = 0 /\ started = 0 /\ edge = Null
    /\ net = NetIdle /\ search = SearchIdle

VisitNext ==
    \/ SelectPatient
    \/ EditReason
    \/ EditAge
    \/ EditSystolic
    \/ EditDiastolic
    \/ NextStep
    \/ PreviousStep
    \/ BackToDashboard
    \/ OpenNewVisit
    \/ CalcTimerFires
    \/ CompleteVisit
    \/ CreateVisitResolves
    \/ CreateVisitRejects

SpecVisit == VisitSpecInit /\ [][VisitNext]_vars

----------------------------------------------------------------------------
(* Claims about the NewVisit wizard, checked under SpecVisit               *)

\* EpwvCalculator shows a result: line 167, result && !isCalculating
ResultShown == calc.mounted /\ calc.result # Null /\ ~calc.isCalculating

\* C6: when Complete Visit is pressed after EpwvCalculator has shown a
\* result, the record passed to createVisit carries that result's ePWV value
\* in epwv_result, its risk category in epwv_risk_level and recommendations
\* in epwv_recommendations.
C6_VisitCarriesEpwv ==
    [][ (db'.calls = db.calls + 1 /\ ResultShown) =>
            /\ db'.last.epwv_result = [k |-> "epwv", v |-> calc.result.epwv]
            /\ db'.last.epwv_risk_level = [k |-> "string", s |-> calc.result.riskCategory]
            /\ db'.last.epwv_recommendations # Null ]_vars

\* age, systolic or diastolic is missing, zero or negative
VitalsInvalid(v) ==
    \/ ~Positive(parseFloat(v.age))
    \/ ~Positive(parseFloat(v.systolic))
    \/ ~Positive(parseFloat(v.diastolic))

\* C7: while age, systolic or diastolic is missing, zero or negative the
\* wizard does not get past the Vital Signs step (step 2), EpwvCalculator
\* computes nothing for such vitals, and createVisit is not called with them.
C7_InvalidVitalsBlockTheWizard ==
    [][ /\ (visit'.mounted /\ VitalsInvalid(visit')) =>
              /\ visit'.currentStep <= 2
              /\ (calc'.mounted => ~calc'.isCalculating /\ calc'.result = Null)
        /\ db'.calls = db.calls + 1 => ~VitalsInvalid(visit) ]_vars

----------------------------------------------------------------------------
(* CameraInterface.tsx with camera.ts and the analyze-retinal-image edge   *)
(* function.  isDragging, captureMode and flashEnabled guard nothing and   *)
(* are left out.                                                           *)

MaxIntakes == 2        \* capture, upload and drop handlers started in a behaviour
MaxTimers == 2         \* quality-check timers pending at once
MaxSaves == 1          \* createVisit calls made by the camera page
maxFileSize == 10485760    \* 10 * 1024 * 1024 bytes

\* A File offered to the browser upload or dropped on the preview: its
\* declared type (which the browser takes from the file's name), its size,
\* whether FileReader reads it, the format of its content, and what the
\* browser's decoder makes of that content.
File(name, type, size, readable, content, decodes, w, h) ==
    [ name |-> name, type |-> type, size |-> size, readable |-> readable,
      content |-> content, decodes |-> decodes, width |-> w, height |-> h ]

Files ==
    { File("a.jpg", "image/jpeg", maxFileSize, TRUE, "image/jpeg", TRUE, 1024, 1024),
      File("c.gif", "image/gif", 2048, TRUE, "image/gif", TRUE, 1024, 1024),
      File("d.jpg", "image/jpeg", maxFileSize + 1, TRUE, "image/jpeg", TRUE, 1024, 1024),
      File("g.png", "image/png", 2048, TRUE, "image/png", TRUE, 400, 400),
      File("m.jpg", "image/jpeg", 2048, TRUE, "image/gif", TRUE, 800, 600) }

\* A Photo returned by the Capacitor Camera plugin: the size in bytes of the
\* shot or library item it was made from, whether it carries base64 data,
\* and the format the plugin reports for it ("jpeg", "png", "gif"); camera.ts
\* reads neither the size nor the format.
Photo(name, size, hasData, format, decodes, w, h) ==
    [ name |-> name, size |-> size, hasData |-> hasData, format |-> format,
      decodes |-> decodes, width |-> w, height |-> h ]

CameraPhotos ==
    { Photo("shot", 4096, TRUE, "jpeg", TRUE, 1920, 1920),
      Photo("noshot", 0, FALSE, "jpeg", FALSE, 0, 0) }

GalleryPhotos ==
    { Photo("pic.jpg", 4096, TRUE, "jpeg", TRUE, 1920, 1440),
      Photo("big.jpg", maxFileSize + 1, TRUE, "jpeg", TRUE, 1920, 1280),
      Photo("anim.gif", 2048, TRUE, "gif", TRUE, 1024, 1024),
      Photo("empty", 0, FALSE, "jpeg", FALSE, 0, 0) }

\* An image held by the page: the uri the code builds for it (by its
\* prefix), the generated file name, the media type of its content, the size
\* in bytes of the file it was read from, and what a decoder makes of it.
\* checked records what validateRetinalImage told the caller about this
\* image: "none" while it was never called on it.
Image(uri, fileName, mime, size, decodes, w, h) ==
    [ uri |-> uri, fileName |-> fileName, mime |-> mime, size |-> size,
      decodes |-> decodes, width |-> w, height |-> h, checked |-> "none" ]

\* simulateCaptureForWeb
Placeholder ==
    Image("/placeholder.svg", "mock.jpg", "image/svg+xml", 1024, TRUE, 1200, 1200)

\* captureRetinalImage and pickImageFromGallery after Camera.getPhoto: the
\* data is labelled image/jpeg whatever the photo's format (a Base64 result
\* carries no webPath)
PhotoImage(ph) ==
    Image("data:image/jpeg;base64,", ph.name, "image/" \o ph.format, ph.size,
          ph.decodes, ph.width, ph.height)

\* uploadImageFromFile: the rejection message, or "" when the file is read
uploadError(file) ==
    IF file.type \notin {"image/jpeg", "image/png", "image/jpg"}
    THEN "Invalid file type. Please upload JPEG or PNG images."
    ELSE IF file.size > maxFileSize
    THEN "File too large. Maximum size is 10MB."
    ELSE IF ~file.readable
    THEN "Failed to read file"
    ELSE ""

\* uploadImageFromFile: the image of a file that was read; readAsDataURL
\* labels the data with the file's declared type
FileImage(file) ==
    Image("data:" \o file.type \o ";base64,", file.name, file.content, file.size,
          file.decodes, file.width, file.height)

\* index.ts: validateImageData, /^data:image\/(jpeg|jpg|png);base64,/
validateImageData(uri) ==
    uri \in { "data:image/jpeg;base64,", "data:image/jpg;base64,",
              "data:image/png;base64," }

\* the image as the caller knows it after awaiting validateRetinalImage
Checked(img) ==
    [img EXCEPT !.checked =
        IF validateRetinalImage(img).isValid THEN "valid" ELSE "invalid"]

\* the simulated quality check: four Math.random() verdicts
Quality(blur, exposure, coverage, artifacts) ==
    [ k |-> "quality", blur |-> blur, exposure |-> exposure,
      coverage |-> coverage, artifacts |-> artifacts ]

\* the verdicts drawn in the model: all pass, one fails
QualityOutcomes ==
    { Quality("pass", "pass", "pass", "pass"),
      Quality("pass", "pass", "fail", "pass") }

isQualityGood(c) ==
    /\ c.qualityCheck # Null
    /\ c.qualityCheck.blur = "pass" /\ c.qualityCheck.exposure = "pass"
    /\ c.qualityCheck.coverage = "pass" /\ c.qualityCheck.artifacts = "pass"

\* useState initial values, lines 35-59, without a preselected patient;
\* native is what isNativePlatform() answers in this run of the app
CamInit(native) ==
    [ mounted          |-> TRUE,
      native           |-> native,
      selectedPatient  |-> Null,
      imageSource      |-> "camera",
      selectedEye      |-> Null,
      isCapturing      |-> FALSE,
      capturedImage    |-> Null,
      capturedFileName |-> Null,
      qualityCheck     |-> Null,
      isAnalyzing      |-> FALSE,
      isSaving         |-> FALSE,
      strokeRiskResult |-> Null ]

CameraFrame == UNCHANGED <<call, visit, calc, started, hookVars>>

IntakeFrame == started' = started + 1 /\ UNCHANGED <<call, visit, calc, hookVars>>

\* the Image Source, Eye Selection and patient controls
SetImageSource ==
    /\ \E src \in {"camera", "upload"} :
        /\ src # cam.imageSource
        /\ cam' = [cam EXCEPT !.imageSource = src]
    /\ UNCHANGED <<intake, timers, edge, db>> /\ CameraFrame

SetSelectedEye ==
    /\ \E eye \in {"left", "right"} :
        /\ Str(eye) # cam.selectedEye
        /\ cam' = [cam EXCEPT !.selectedEye = Str(eye)]
    /\ UNCHANGED <<intake, timers, edge, db>> /\ CameraFrame

\* PatientSearch (shown while no patient is selected) and Change Patient
SetSelectedPatient ==
    /\ cam' = [cam EXCEPT !.selectedPatient =
                  IF cam.selectedPatient = Null
                  THEN [k |-> "patient", id |-> "p1"] ELSE Null]
    /\ UNCHANGED <<intake, timers, edge, db>> /\ CameraFrame

\* the setState calls shared by the three intake handlers once they hold an
\* accepted image, and the timer they start
Accepted(c, img) ==
    [c EXCEPT !.capturedImage = img, !.capturedFileName = Str(img.fileName)]

\* a catch block that also clears the preview
Failed_Clearing(c) ==
    [c EXCEPT !.isCapturing = FALSE, !.capturedImage = Null,
              !.capturedFileName = Null, !.qualityCheck = Null,
              !.strokeRiskResult = Null]

\* the catch block shared by the three intake handlers
Failed(c) == [c EXCEPT !.isCapturing = FALSE]

\* handleCapture up to its await: the Capture button is shown while no image
\* is captured and the source is the camera
CaptureClick ==
    /\ cam.capturedImage = Null /\ cam.imageSource = "camera"
    /\ cam.selectedEye # Null /\ ~cam.isCapturing
    /\ started < MaxIntakes
    /\ cam' = [cam EXCEPT !.isCapturing = TRUE]
    /\ intake' = Append(intake, [h |-> "capture", stage |-> "loading"])
    /\ UNCHANGED <<timers, edge, db>> /\ IntakeFrame

\* handleGalleryUpload up to its first await: the Select Image button
GalleryClick ==
    /\ cam.capturedImage = Null /\ cam.imageSource = "upload"
    /\ cam.selectedEye # Null /\ ~cam.isCapturing
    /\ started < MaxIntakes
    /\ cam' = [cam EXCEPT !.isCapturing = TRUE]
    /\ intake' = Append(intake, [h |-> "gallery", stage |-> "loading"])
    /\ UNCHANGED <<timers, edge, db>> /\ IntakeFrame

\* handleDrop up to its first await: onDrop is attached whenever the source
\* is upload; without an eye it only shows a toast.  Files are dragged onto
\* the page in a desktop browser only.
Drop ==
    /\ ~cam.native
    /\ cam.imageSource = "upload"
    /\ cam.selectedEye # Null
    /\ started < MaxIntakes
    /\ \E f \in Files :
        intake' = Append(intake, [h |-> "drop", stage |-> "loading", file |-> f])
    /\ cam' = [cam EXCEPT !.isCapturing = TRUE]
    /\ UNCHANGED <<timers, edge, db>> /\ IntakeFrame

\* position i of the intake list removed
Without(i) == SubSeq(intake, 1, i - 1) \o SubSeq(intake, i + 1, Len(intake))

\* position i of the intake list replaced
With(i, x) == [intake EXCEPT ![i] = x]

\* the awaited capture, pick or file read settles with an image
Loaded(i, img) ==
    IF intake[i].h = "capture"
    THEN \* handleCapture takes the image as it is
         /\ cam' = Accepted(cam, img)
         /\ timers' = timers + 1
         /\ intake' = Without(i)
    ELSE \* the other two go on to await validateRetinalImage(result.uri)
         /\ intake' = With(i, [h |-> intake[i].h, stage |-> "validating", img |-> img])
         /\ UNCHANGED <<cam, timers>>

\* the awaited capture, pick or file read rejects: the catch block
LoadFailed(i) ==
    /\ cam' = Failed(cam)
    /\ intake' = Without(i)
    /\ UNCHANGED timers

\* the promise awaited by a handler in its loading stage settles
LoadSettles ==
    /\ \E i \in 1..Len(intake) :
        /\ intake[i].stage = "loading"
        /\ timers < MaxTimers
        /\ \E denied \in BOOLEAN, noFile \in BOOLEAN :
            CASE intake[i].h = "capture" /\ cam.native ->
                    \* captureRetinalImage
                    \E ph \in CameraPhotos :
                        IF denied \/ ~ph.hasData THEN LoadFailed(i)
                        ELSE Loaded(i, PhotoImage(ph))
              [] intake[i].h = "capture" /\ ~cam.native ->
                    \* simulateCaptureForWeb
                    Loaded(i, Placeholder)
              [] intake[i].h = "gallery" /\ cam.native ->
                    \* pickImageFromGallery
                    \E ph \in GalleryPhotos :
                        IF denied \/ ~ph.hasData THEN LoadFailed(i)
                        ELSE Loaded(i, PhotoImage(ph))
              [] intake[i].h = "gallery" /\ ~cam.native ->
                    \* handleWebFileUpload: input.onchange, with the file the
                    \* user picked in the dialog or with none; a dismissed
                    \* dialog fires nothing and the handler stays here
                    \E f \in Files :
                        IF noFile \/ uploadError(f) # "" THEN LoadFailed(i)
                        ELSE Loaded(i, FileImage(f))
              [] intake[i].h = "drop" ->
                    \* uploadImageFromFile(file)
                    IF uploadError(intake[i].file) # "" THEN LoadFailed(i)
                    ELSE Loaded(i, FileImage(intake[i].file))
    /\ UNCHANGED <<edge, db>> /\ CameraFrame

\* handleWebFileUpload: the user closes the browser's file dialog without
\* choosing a file; onchange never fires, nothing listens for the dismissal,
\* and the promise the handler awaits is never settled
PickerDismissed ==
    /\ ~cam.native
    /\ \E i \in 1..Len(intake) :
        /\ intake[i].h = "gallery" /\ intake[i].stage = "loading"
        /\ intake' = With(i, [h |-> "gallery", stage |-> "dismissed"])
    /\ UNCHANGED <<cam, timers, edge, db>> /\ CameraFrame

\* validateRetinalImage resolves for a gallery or drop handler
ValidationSettles ==
    /\ \E i \in 1..Len(intake) :
        /\ intake[i].stage = "validating"
        /\ timers < MaxTimers
        /\ intake' = Without(i)
        /\ IF validateRetinalImage(intake[i].img).isValid
           THEN /\ cam' = Accepted(cam, Checked(intake[i].img))
                /\ timers' = timers + 1
           ELSE /\ cam' = Failed(cam)
                /\ UNCHANGED timers
    /\ UNCHANGED <<edge, db>> /\ CameraFrame

\* a quality-check timer expires
QualityTimerFires ==
    /\ timers > 0
    /\ timers' = timers - 1
    /\ \E q \in QualityOutcomes :
        cam' = [cam EXCEPT !.qualityCheck = q, !.isCapturing = FALSE]
    /\ UNCHANGED <<intake, edge, db>> /\ CameraFrame

\* handleRetake
Retaken(c) ==
    [c EXCEPT !.capturedImage = Null, !.capturedFileName = Null,
              !.qualityCheck = Null, !.strokeRiskResult = Null]

Retake ==
    /\ cam.capturedImage # Null
    /\ cam' = Retaken(cam)
    /\ UNCHANGED <<intake, timers, edge, db>> /\ CameraFrame

\* handleAnalyzeStrokeRisk up to its await: the Analyze button is shown
\* while an image is captured and no result is held
AnalyzeClick ==
    /\ cam.capturedImage # Null /\ cam.strokeRiskResult = Null
    /\ isQualityGood(cam) /\ ~cam.isAnalyzing
    /\ cam.selectedEye # Null
    /\ edge = Null
    /\ cam' = [cam EXCEPT !.isAnalyzing = TRUE]
    /\ edge' = [ k |-> "request", stage |-> "sent",
                 imageData |-> cam.capturedImage,
                 fetches |-> 0, status |-> 0, body |-> Null ]
    /\ UNCHANGED <<intake, timers, db>> /\ CameraFrame

\* index.ts, the handler from the request to its fetch of the AI gateway:
\* a missing API key throws (500), a body that validateImageData refuses is
\* answered 400, and otherwise the image is sent to the gateway
EdgeReceives ==
    /\ edge # Null /\ edge.stage = "sent"
    /\ \E keySet \in BOOLEAN :
        edge' = IF ~keySet
                THEN [edge EXCEPT !.stage = "responded", !.status = 500,
                                  !.body = Str("LOVABLE_API_KEY is not configured")]
                ELSE IF ~validateImageData(edge.imageData.uri)
                THEN [edge EXCEPT !.stage = "responded", !.status = 400,
                                  !.body = Str("Invalid image format. Please provide a valid JPEG or PNG image.")]
                ELSE [edge EXCEPT !.stage = "gateway", !.fetches = edge.fetches + 1]
    /\ UNCHANGED <<cam, intake, timers, db>> /\ CameraFrame

\* a handler that asks the gateway again after an answer that is not ok
EdgeResponds_Retrying ==
    /\ edge # Null /\ edge.stage = "gateway"
    /\ \E status \in {200, 503} :
        edge' = IF status = 200
                THEN [edge EXCEPT !.stage = "responded", !.status = 500,
                                  !.body = Str("No tool call returned from AI")]
                ELSE IF edge.fetches < 2
                THEN [edge EXCEPT !.fetches = edge.fetches + 1]
                ELSE [edge EXCEPT !.stage = "responded", !.status = 500,
                                  !.body = Str("AI gateway error")]
    /\ UNCHANGED <<cam, intake, timers, db>> /\ CameraFrame

\* index.ts, the handler from the gateway's answer to its response
EdgeResponds ==
    /\ edge # Null /\ edge.stage = "gateway"
    /\ \E status \in {200, 402, 429, 503}, toolCall \in BOOLEAN, parses \in BOOLEAN,
          a \in AnalysisOutputs :
        LET r == gatewayResponse(status, toolCall, parses, a)
        IN  edge' = [edge EXCEPT !.stage = "responded", !.status = r.status,
                                 !.body = r.body]
    /\ UNCHANGED <<cam, intake, timers, db>> /\ CameraFrame

\* handleAnalyzeStrokeRisk after its await: invoke returns an error for a
\* response that is not 2xx, and the data otherwise
AnalyzeSettles ==
    /\ edge # Null /\ edge.stage = "responded"
    /\ cam' = IF edge.status = 200
              THEN [cam EXCEPT
                      !.strokeRiskResult =
                          [ k |-> "result",
                            percentage |-> edge.body.strokeRiskPercentage,
                            level |-> edge.body.riskLevel,
                            imageQualityScore |-> edge.body.imageQualityScore,
                            confidence |-> edge.body.confidence,
                            \* not in the code: the file the request carried
                            image |-> Str(edge.imageData.fileName) ],
                      !.isAnalyzing = FALSE]
              ELSE [cam EXCEPT !.isAnalyzing = FALSE]
    /\ edge' = Null
    /\ UNCHANGED <<intake, timers, db>> /\ CameraFrame

\* the request never reaches the function, or its response never arrives:
\* invoke returns a fetch error
AnalyzeFetchFails ==
    /\ edge # Null
    /\ cam' = [cam EXCEPT !.isAnalyzing = FALSE]
    /\ edge' = Null
    /\ UNCHANGED <<intake, timers, db>> /\ CameraFrame

\* handleAccept up to its await of createVisit: the Save Analysis button is
\* shown while an image and a result are held
AcceptClick ==
    /\ cam.capturedImage # Null /\ cam.strokeRiskResult # Null
    /\ ~cam.isSaving
    /\ cam.capturedFileName # Null /\ cam.selectedPatient # Null
    /\ db.calls < MaxSaves
    /\ cam' = [cam EXCEPT !.isSaving = TRUE]
    /\ db' = [db EXCEPT
                !.pending = db.pending + 1,
                !.calls = db.calls + 1,
                !.last = [ patient_id |-> cam.selectedPatient.id,
                           retinal_image_path |-> cam.capturedFileName,
                           retinal_image_source |-> IF cam.imageSource = "camera"
                                                    THEN "camera" ELSE "upload",
                           stroke_risk_percentage |-> cam.strokeRiskResult.percentage,
                           stroke_risk_level |-> cam.strokeRiskResult.level,
                           image_quality_score |-> cam.strokeRiskResult.imageQualityScore ]]
    /\ UNCHANGED <<intake, timers, edge>> /\ CameraFrame

\* createVisit resolves: handleRetake(), setSelectedPatient(null), finally
SaveResolves ==
    /\ db.pending > 0
    /\ db' = [db EXCEPT !.pending = db.pending - 1, !.rows = db.rows + 1]
    /\ cam' = [Retaken(cam) EXCEPT !.selectedPatient = Null, !.isSaving = FALSE]
    /\ UNCHANGED <<intake, timers, edge>> /\ CameraFrame

\* a catch block that starts over after a failed save
SaveRejects_RollingBack ==
    /\ db.pending > 0
    /\ db' = [db EXCEPT !.pending = db.pending - 1]
    /\ cam' = [Retaken(cam) EXCEPT !.isSaving = FALSE]
    /\ UNCHANGED <<intake, timers, edge>> /\ CameraFrame

\* createVisit rejects: the toast, finally
SaveRejects ==
    /\ db.pending > 0
    /\ db' = [db EXCEPT !.pending = db.pending - 1]
    /\ cam' = [cam EXCEPT !.isSaving = FALSE]
    /\ UNCHANGED <<intake, timers, edge>> /\ CameraFrame

CameraInit ==
    /\ call = NoCall
    /\ visit = VisitIdle
    /\ calc = CalcIdle
    /\ db = DbIdle
    /\ \E native \in BOOLEAN : cam = CamInit(native)
    /\ net = NetIdle /\ search = SearchIdle
    /\ intake = << >>
    /\ timers = 0
    /\ started = 0
    /\ edge = Null

CameraNext ==
    \/ SetImageSource
    \/ SetSelectedEye
    \/ SetSelectedPatient
    \/ CaptureClick
    \/ GalleryClick
    \/ Drop
    \/ LoadSettles
    \/ PickerDismissed
    \/ ValidationSettles
    \/ QualityTimerFires
    \/ Retake
    \/ AnalyzeClick
    \/ EdgeReceives
    \/ EdgeResponds
    \/ AnalyzeSettles
    \/ AnalyzeFetchFails
    \/ AcceptClick
    \/ SaveResolves
    \/ SaveRejects

SpecCamera == CameraInit /\ [][CameraNext]_vars

\* The awaited promises of the camera plugin, FileReader and the image
\* decoder settle, an open file dialog is used or dismissed, and timers fire.
CameraFairness ==
    /\ WF_vars(LoadSettles)
    /\ WF_vars(ValidationSettles)
    /\ WF_vars(QualityTimerFires)

SpecCameraLive == CameraInit /\ [][CameraNext]_vars /\ CameraFairness

----------------------------------------------------------------------------
(* Claims about the retinal image pipeline, checked under SpecCamera       *)

\* C8: an image is submitted to the analyze-retinal-image endpoint only
\* after validateRetinalImage returned isValid = true for that same image,
\* whichever handler took it in (capture, gallery pick, file upload, drop).
C8_SubmittedOnlyAfterValidation ==
    edge # Null => edge.imageData.checked = "valid"

\* the content of the image is neither JPEG nor PNG
NotJpegOrPng(img) == img.mime \notin {"image/jpeg", "image/jpg", "image/png"}

\* C10: an image that is not JPEG or PNG is rejected at the format check:
\* no handler goes on to decode its dimensions with validateRetinalImage,
\* none holds it as an image whose dimensions were decoded, and no request
\* carrying it reaches the external model.
C10_NonJpegPngRejectedFirst ==
    /\ \A i \in 1..Len(intake) :
          intake[i].stage = "validating" => ~NotJpegOrPng(intake[i].img)
    /\ (cam.capturedImage # Null /\ NotJpegOrPng(cam.capturedImage)) =>
          cam.capturedImage.checked = "none"
    /\ (edge # Null /\ edge.fetches > 0) => ~NotJpegOrPng(edge.imageData)

\* C11: a file larger than 10 MB is rejected before it is read or decoded
\* and never becomes the captured image, on every upload path (browser file
\* dialog, drop, gallery pick); a file of exactly 10 MB passes the size check.
C11_OversizeNeverCaptured ==
    /\ \A i \in 1..Len(intake) :
          intake[i].stage = "validating" => intake[i].img.size <= maxFileSize
    /\ cam.capturedImage # Null => cam.capturedImage.size <= maxFileSize
    /\ \A f \in Files :
          f.size = maxFileSize =>
              uploadError(f) # "File too large. Maximum size is 10MB."

GatewayOutcome ==
    /\ edge # Null /\ edge.stage = "responded"
    /\ \/ edge.status \in {200, 402, 429}
       \/ edge.body \in { Str("AI gateway error"),
                          Str("No tool call returned from AI"),
                          Str("Unexpected token in JSON") }

----------------------------------------------------------------------------
(* Claims about the edge function's responses, checked under SpecPure      *)

\* C13: the handler maps each failure of the gateway call to its own
\* outcome: 429 gives 429 with the rate-limit message, 402 gives 402 with the
\* payment-required message, any other status that is not 2xx gives 500
\* "AI gateway error", a 2xx answer without a tool call gives 500 "No tool
\* call returned from AI"; the four (status, message) pairs are distinct.
C13_GatewayFailuresDistinct ==
    /\ call.op = "gatewayResponse" =>
          /\ call.status = 429 =>
                call.ret = Response(429, Str("Rate limits exceeded, please try again later."))
          /\ call.status = 402 =>
                call.ret = Response(402, Str("Payment required, please add funds to your Lovable AI workspace."))
          /\ (call.status \notin 200..299 /\ call.status \notin {402, 429}) =>
                call.ret = Response(500, Str("AI gateway error"))
          /\ (call.status \in 200..299 /\ ~call.toolCall) =>
                call.ret = Response(500, Str("No tool call returned from AI"))
    /\ \A a \in AnalysisOutputs :
          Cardinality({ gatewayResponse(429, TRUE, TRUE, a),
                        gatewayResponse(402, TRUE, TRUE, a),
                        gatewayResponse(503, TRUE, TRUE, a),
                        gatewayResponse(200, FALSE, TRUE, a) }) = 4

\* the gateway asked for payment and the handler answered 402
C13_Witness ==
    /\ call.op = "gatewayResponse" /\ call.status = 402
    /\ call.ret.status = 402

----------------------------------------------------------------------------
(* Claims about the classifier's fixed texts, checked under SpecPure       *)

\* ages and mean pressures (in tenths) that fall in each risk category with
\* different ePWV values and confidence bands
ClassifyProbes ==
    { <<500, 933>>, <<670, 1067>>, <<900, 800>>, <<900, 1300>>,
      <<950, 1067>>, <<1000, 600>>, <<1100, 600>>, <<1200, 1300>> }

\* C19: for each of the three risk categories the classifier returns one
\* fixed interpretation and one fixed ordered list of 3 to 4
\* recommendations, determined by the category alone: two inputs of the same
\* category get the same texts, whatever their ePWV, age, MAP and confidence.
C19_TextsFixedByCategory ==
    call.op = "classify" =>
        /\ call.ret.riskCategory \in {"Low", "Medium", "High"}
        /\ Len(call.ret.recommendations) \in 3..4
        /\ \A p \in ClassifyProbes :
              LET q == EpwvResult(p[1], p[2])
              IN  q.riskCategory = call.ret.riskCategory =>
                      /\ q.interpretation = call.ret.interpretation
                      /\ q.recommendations = call.ret.recommendations

\* a Medium classification for an age and MAP that are not among the probes'
C19_Witness ==
    /\ call.op = "classify" /\ call.age = 980 /\ call.mbp = 900
    /\ call.ret.riskCategory = "Medium"

\* C20 as stated: for the High category the classifier returns exactly
\* three recommendations.
C20_HighHasThreeRecommendations ==
    (call.op = "classify" /\ call.ret.riskCategory = "High") =>
        Len(call.ret.recommendations) = 3

\* C20, amended: for the High category the classifier returns exactly four
\* fixed recommendations, in this order.
C20_HighHasFourRecommendations ==
    (call.op = "classify" /\ call.ret.riskCategory = "High") =>
        call.ret.recommendations =
            << "Clinical evaluation recommended",
               "Comprehensive cardiovascular assessment",
               "Consider specialist referral",
               "Immediate lifestyle interventions" >>

\* a High classification
C20_Witness ==
    /\ call.op = "classify" /\ call.age = 1200 /\ call.mbp = 1067
    /\ call.ret.riskCategory = "High"

C27_RiskOnlyWithLowConfidence ==
    call.op = "classify" =>
        /\ (call.age >= 180 /\ call.age <= 900 /\ call.mbp >= 600 /\ call.mbp <= 1200) =>
              /\ call.ret.confidence # "Low"
              /\ Less(call.ret.epwv, Hundredths(800))
              /\ call.ret.riskCategory = "Low"
        /\ call.ret.riskCategory \in {"Medium", "High"} =>
              call.ret.confidence = "Low"

\* the corner of the envelope where the ePWV is largest, age 90 and MAP
\* 120, is classified: its risk is Low, while age 91 at the same MAP is
\* already Medium
C27_Witness ==
    /\ call.op = "classify" /\ call.age = 900 /\ call.mbp = 1200
    /\ call.ret.confidence = "Moderate" /\ call.ret.riskCategory = "Low"
    /\ getRiskCategory(calculateEpwv(910, 1200), 910) = "Medium"

\* what holds of every request, whichever comes first in the handler
ServeOutcome ==
    /\ call.ret.k = "response"
    /\ call.ret.fetches \in {0, 1}
    /\ call.req.method = "OPTIONS" =>
          call.ret.body = Null /\ call.ret.fetches = 0
    /\ call.req.method # "OPTIONS" =>
          /\ call.ret.status \in {200, 400, 402, 429, 500}
          /\ (~call.keySet \/ call.req.body.k # "object") => call.ret.status = 500
          /\ ( /\ call.ret.fetches = 1 /\ call.gw.k = "json"
               /\ call.gw.status \in 200..299
               /\ call.gw.toolCall /\ ~call.gw.parses ) => call.ret.status = 500
          /\ call.ret.status = 400 =>
                /\ call.req.body.k = "object"
                /\ ~imageRegexTest(call.req.body.imageData)
                /\ call.ret.fetches = 0

\* C29 as stated: every request ends in a response and never in an uncaught
\* exception; OPTIONS gives an empty response with no outbound call;
\* otherwise the status is 200, 400, 402, 429 or 500, with 400 and no
\* outbound call when imageData does not start with a
\* data:image/jpeg|jpg|png;base64 prefix, and 500 when the API key is
\* missing, the body is not JSON or the tool-call arguments do not parse.
C29_BadImageIsAlways400 ==
    call.op = "serve" =>
        /\ ServeOutcome
        /\ ( /\ call.req.method # "OPTIONS" /\ call.req.body.k = "object"
             /\ ~imageRegexTest(call.req.body.imageData) ) =>
                call.ret.status = 400 /\ call.ret.fetches = 0

\* C29, amended: the same, with 400 for a bad imageData only when the API
\* key is configured; with the key missing the answer is 500 whatever the
\* image is, because the key is looked at first.
C29_EveryRequestAnswered ==
    call.op = "serve" =>
        /\ ServeOutcome
        /\ ( /\ call.req.method # "OPTIONS" /\ call.req.body.k = "object"
             /\ ~imageRegexTest(call.req.body.imageData) ) =>
                /\ call.ret.fetches = 0
                /\ call.ret.status = IF call.keySet THEN 400 ELSE 500

\* a GIF data URL was posted to a handler without its key: 500, no fetch
C29_Witness ==
    /\ call.op = "serve" /\ call.req.method = "POST"
    /\ call.req.body.k = "object"
    /\ call.req.body.imageData = "data:image/gif;base64,"
    /\ ~call.keySet
    /\ call.ret.k = "response" /\ call.ret.status = 500 /\ call.ret.fetches = 0

\* C30: the mean_bp that createVisit stores with a NewVisit visit equals the
\* MAP that getMeanBP displayed and passed to EpwvCalculator for the same
\* entered systolic and diastolic fields, for every accepted input (both
\* fields non-empty) including non-integer readings.
C30_StoredMeanIsShownMean ==
    (call.op = "createVisit" /\ call.systolic # <<>> /\ call.diastolic # <<>>) =>
        IF call.shown = Null
        THEN call.ret.mean_bp = Null
        ELSE call.ret.mean_bp = parseFloat(call.shown.s)

----------------------------------------------------------------------------
(* Further claims about the retinal image pipeline, under SpecCamera       *)

RiskLevels == {"Low", "Moderate", "High", "Critical", "Insufficient Quality"}

\* C14: every assessment the endpoint returns as a success, that
\* CameraInterface stores in strokeRiskResult and that it saves to a visit,
\* has imageQualityScore, strokeRiskPercentage and confidence in 0..100 and
\* a riskLevel among the five levels, whatever the external model answered.
C14_AssessmentWithinRanges ==
    /\ (edge # Null /\ edge.stage = "responded" /\ edge.status = 200) =>
          /\ edge.body.imageQualityScore \in 0..100
          /\ edge.body.strokeRiskPercentage \in 0..100
          /\ edge.body.confidence \in 0..100
          /\ edge.body.riskLevel \in RiskLevels
    /\ cam.strokeRiskResult # Null =>
          /\ cam.strokeRiskResult.imageQualityScore \in 0..100
          /\ cam.strokeRiskResult.percentage \in 0..100
          /\ cam.strokeRiskResult.confidence \in 0..100
          /\ cam.strokeRiskResult.level \in RiskLevels
    /\ db.last # Null =>
          /\ db.last.image_quality_score \in 0..100
          /\ db.last.stroke_risk_percentage \in 0..100
          /\ db.last.stroke_risk_level \in RiskLevels

\* the step ends an analysis request that did not succeed
AnalysisFails ==
    /\ edge # Null /\ edge' = Null
    /\ edge.stage # "responded" \/ edge.status # 200

\* the step ends a createVisit call of handleAccept without a row written
SaveFails ==
    /\ db'.pending = db.pending - 1
    /\ db'.rows = db.rows

\* C16: a failed step rolls nothing back: when the analysis call fails,
\* capturedImage, capturedFileName and qualityCheck are unchanged; when the
\* save fails, those, strokeRiskResult and selectedPatient are unchanged; the
\* pending flag (isAnalyzing, isSaving) is false afterwards.
C16_FailureKeepsEarlierSteps ==
    [][ /\ AnalysisFails =>
              /\ cam'.capturedImage = cam.capturedImage
              /\ cam'.capturedFileName = cam.capturedFileName
              /\ cam'.qualityCheck = cam.qualityCheck
              /\ ~cam'.isAnalyzing
        /\ SaveFails =>
              /\ cam'.capturedImage = cam.capturedImage
              /\ cam'.capturedFileName = cam.capturedFileName
              /\ cam'.qualityCheck = cam.qualityCheck
              /\ cam'.strokeRiskResult = cam.strokeRiskResult
              /\ cam'.selectedPatient = cam.selectedPatient
              /\ ~cam'.isSaving ]_vars

\* a save has failed and the image and its result are still held
C16_Witness ==
    /\ db.calls = 1 /\ db.pending = 0 /\ db.rows = 0
    /\ cam.capturedImage # Null /\ cam.strokeRiskResult # Null
    /\ ~cam.isSaving

\* the step ends an upload or drop handler without an image accepted
UploadRejected ==
    /\ timers' = timers
    /\ \E i \in 1..Len(intake) :
          /\ intake[i].h \in {"gallery", "drop"}
          /\ intake' = Without(i)

\* C17: a rejected upload (wrong type, over 10 MB, unreadable, or refused by
\* validateRetinalImage) never becomes the captured image: capturedImage,
\* capturedFileName, qualityCheck and strokeRiskResult are left unchanged
\* and isCapturing is reset to false.
C17_RejectedUploadLeavesState ==
    [][ UploadRejected =>
            /\ cam'.capturedImage = cam.capturedImage
            /\ cam'.capturedFileName = cam.capturedFileName
            /\ cam'.qualityCheck = cam.qualityCheck
            /\ cam'.strokeRiskResult = cam.strokeRiskResult
            /\ ~cam'.isCapturing ]_vars

\* the one upload started so far has ended and left no image
C17_Witness ==
    /\ cam.imageSource = "upload" /\ started = 1
    /\ intake = << >> /\ timers = 0
    /\ cam.capturedImage = Null /\ cam.qualityCheck = Null
    /\ ~cam.isCapturing

\* C18: every capture or upload attempt that sets isCapturing to true
\* eventually sets it back to false, so that Capture / Select Image is
\* enabled again; this includes an attempt in which the browser's file
\* dialog is dismissed without a file chosen.
C18_CapturingEventuallyEnds ==
    cam.isCapturing ~> ~cam.isCapturing

\* C23: whenever strokeRiskResult is non-null it is the result of analysing
\* the image currently held (the file named by capturedFileName), and a
\* save by handleAccept carries as retinal_image_path the file that
\* produced the stroke-risk values it stores; across Retake, a dropped
\* file, a new capture and the arrival of a pending analysis response.
C23_ResultBelongsToImage ==
    [][ /\ cam'.strokeRiskResult # Null =>
              cam'.strokeRiskResult.image = cam'.capturedFileName
        /\ db'.calls > db.calls =>
              cam.strokeRiskResult.image = db'.last.retinal_image_path ]_vars

\* C24: qualityCheck is non-null only while capturedImage is non-null: a
\* quality-check timer started for one capture never sets qualityCheck
\* after Retake has cleared that capture.
C24_QualityCheckOnlyWithImage ==
    cam.qualityCheck # Null => cam.capturedImage # Null

----------------------------------------------------------------------------
(* Further claims about the NewVisit wizard, under SpecVisit               *)

\* C15: no user-initiated action runs concurrently with itself: while a
\* save is pending its control is disabled, so at most one createVisit call
\* of NewVisit's Complete Visit is in flight at any time (and likewise at
\* most one capture, one analysis and one save of CameraInterface).
C15_OneCreateVisitInFlight ==
    db.pending <= 1

\* what the step reached says about the fields filled in
StepsGuarded ==
    visit.mounted =>
        /\ visit.currentStep \in 0..4
        /\ visit.currentStep >= 1 => visit.selectedPatient # Null
        /\ visit.currentStep >= 2 => Trim(visit.reason) # <<>>
        /\ visit.currentStep >= 3 =>
              visit.age # <<>> /\ visit.systolic # <<>> /\ visit.diastolic # <<>>

\* C28: for every sequence of Next, Previous, patient selection and field
\* edits, currentStep stays within 0..4; currentStep >= 1 implies a patient
\* is selected; currentStep >= 2 implies the reason is non-blank;
\* currentStep >= 3 implies age, systolic and diastolic are non-empty; and
\* createVisit is called only from step 4.
C28_WizardStepsGuarded ==
    /\ []StepsGuarded
    /\ [][db'.calls > db.calls => (visit.mounted /\ visit.currentStep = 4)]_vars

\* the wizard is at step 4 and createVisit has been called
C28_Witness ==
    /\ visit.mounted /\ visit.currentStep = 4
    /\ db.calls > 0 /\ db.pending > 0
    /\ visit.selectedPatient # Null /\ Trim(visit.reason) # <<>>

----------------------------------------------------------------------------
(* useNetworkStatus: the hook that tells the components whether the device *)
(* is online. In a browser it reads navigator.onLine and listens to the    *)
(* window's online and offline events; on a native platform it asks the    *)
(* Network plugin for the status and registers a change listener, both     *)
(* asynchronously.                                                         *)

\* how many times the connectivity changes
MaxChanges == 3

\* a connectivity value reported by the platform
Status(connected) == [k |-> "status", connected |-> connected]

\* the hook after its first render: isOnline starts as true and the effect
\* has not run yet
NetInit(native, connected) ==
    [ mounted   |-> TRUE,
      native    |-> native,
      connected |-> connected,      \* the platform's connectivity
      isOnline  |-> TRUE,
      effect    |-> "pending",
      listener  |-> "none",
      query     |-> [k |-> "none"],
      events    |-> << >>,          \* change callbacks not yet run, oldest first
      reported  |-> Null,           \* the connectivity the platform reported last
      changes   |-> 0 ]

NetFrame == UNCHANGED <<call, visit, calc, db, cameraVars, search>>

\* the effect in a browser: read navigator.onLine, attach both listeners
EffectWeb ==
    /\ net.mounted /\ ~net.native /\ net.effect = "pending"
    /\ net' = [net EXCEPT !.effect = "ran",
                          !.isOnline = net.connected,
                          !.listener = "registered",
                          !.reported = Status(net.connected)]
    /\ NetFrame

\* the effect on a native platform: checkStatus() is called and reaches its
\* await, addListener is called and its registration is under way
EffectNative ==
    /\ net.mounted /\ net.native /\ net.effect = "pending"
    /\ net' = [net EXCEPT !.effect = "ran",
                          !.query = [k |-> "sent"],
                          !.listener = "requested"]
    /\ NetFrame

\* the plugin reads the connectivity for Network.getStatus()
GetStatusSamples ==
    /\ net.mounted /\ net.query.k = "sent"
    /\ net' = [net EXCEPT !.query = Status(net.connected),
                          !.reported = Status(net.connected)]
    /\ NetFrame

\* Network.getStatus() fails
GetStatusFails ==
    /\ net.mounted /\ net.query.k = "sent"
    /\ net' = [net EXCEPT !.query = [k |-> "error"]]
    /\ NetFrame

\* checkStatus continues after its await: the status is stored, or true
\* when the call was rejected
CheckStatusSettles ==
    /\ net.mounted /\ net.query.k \in {"status", "error"}
    /\ net' = [net EXCEPT !.isOnline = IF net.query.k = "status"
                                       THEN net.query.connected ELSE TRUE,
                          !.query = [k |-> "done"]]
    /\ NetFrame

\* the plugin has registered the networkStatusChange listener
ListenerRegistered ==
    /\ net.mounted /\ net.listener = "requested"
    /\ net' = [net EXCEPT !.listener = "registered"]
    /\ NetFrame

\* the device goes online or offline; a registered listener is notified
ConnectivityChanges ==
    /\ net.mounted /\ net.changes < MaxChanges
    /\ LET connected == ~net.connected
       IN  net' = [net EXCEPT
                !.connected = connected,
                !.changes = net.changes + 1,
                !.events = IF net.listener = "registered"
                           THEN Append(net.events, connected) ELSE net.events,
                !.reported = IF net.listener = "registered"
                             THEN Status(connected) ELSE net.reported]
    /\ NetFrame

\* handleOnline, handleOffline or the networkStatusChange callback runs
ChangeCallbackRuns ==
    /\ net.mounted /\ net.events # << >>
    /\ net' = [net EXCEPT !.isOnline = Head(net.events),
                          !.events = Tail(net.events)]
    /\ NetFrame

NetworkInit ==
    /\ call = NoCall
    /\ visit = VisitIdle
    /\ calc = CalcIdle
    /\ db = DbIdle
    /\ cam = CamIdle /\ intake = << >> /\ timers = 0 /\ started = 0 /\ edge = Null
    /\ \E native, connected \in BOOLEAN : net = NetInit(native, connected)
    /\ search = SearchIdle

NetworkNext ==
    \/ EffectWeb
    \/ EffectNative
    \/ GetStatusSamples
    \/ GetStatusFails
    \/ CheckStatusSettles
    \/ ListenerRegistered
    \/ ConnectivityChanges
    \/ ChangeCallbackRuns

SpecNetwork == NetworkInit /\ [][NetworkNext]_vars

\* every callback of the hook has run
NetSettled ==
    /\ net.mounted /\ net.effect = "ran"
    /\ net.query.k \in {"none", "done"}
    /\ net.listener = "registered"
    /\ net.events = << >>

\* C22: useNetworkStatus detects online/offline on both web and native:
\* after any sequence of connectivity changes, once every pending callback
\* (initial status query, change listener, online/offline events) has run,
\* isOnline equals the most recently reported connectivity.
C22_IsOnlineIsLastReported ==
    (NetSettled /\ net.reported # Null) =>
        net.isOnline = net.reported.connected

----------------------------------------------------------------------------
(* PatientSearch: the search box of the patient list. Every change of the  *)
(* term to two characters or more starts a search; the responses are       *)
(* stored as they arrive.                                                  *)

\* how many searches are started
MaxSearches == 3

\* the patients table, newest first
Directory ==
    << [name |-> <<"B", "o">>, mrn |-> <<"7">>],
       [name |-> <<"A", "n", "n", "a">>, mrn |-> <<"9">>],
       [name |-> <<"A", "n">>, mrn |-> <<"7", "9">>] >>

\* what the user may have in the search box
SearchTerms ==
    { <<>>, <<"a">>, <<"a", "n">>, <<"A", "N", "N">>, <<"b", "o">>, <<"7">>, <<"z", "z">> }

Lower(c) ==
    CASE c = "A" -> "a" [] c = "B" -> "b" [] c = "N" -> "n" [] OTHER -> c

LowerAll(s) == [i \in 1..Len(s) |-> Lower(s[i])]

\* value ILIKE %term%
ilike(value, term) ==
    LET v == LowerAll(value)
        t == LowerAll(term)
    IN  \E i \in 0..(Len(v) - Len(t)) : SubSeq(v, i + 1, i + Len(t)) = t

\* searchPatients: the rows whose name or mrn matches, newest first (the
\* rows of this table have no phone)
searchPatients(searchTerm) ==
    LET matches(p) == ilike(p.name, searchTerm) \/ ilike(p.mrn, searchTerm)
    IN  SelectSeq(Directory, matches)

\* useState initial values
SearchInit ==
    [ mounted    |-> TRUE,
      searchTerm |-> <<>>,
      patients   |-> <<>>,
      loading    |-> FALSE,
      pending    |-> <<>>,      \* the terms of the searches in flight
      issued     |-> 0,
      failed     |-> FALSE ]    \* not in the code: a search has been rejected

SearchFrame == UNCHANGED <<call, visit, calc, db, cameraVars, net>>

\* the searches in flight without the one at position i
Settled(i) ==
    SubSeq(search.pending, 1, i - 1) \o SubSeq(search.pending, i + 1, Len(search.pending))

\* the input's onChange and the effect on searchTerm: handleSearch up to
\* its await for two characters or more, an empty list otherwise
ChangeSearchTerm ==
    /\ search.mounted
    /\ \E term \in SearchTerms \ {search.searchTerm} :
        IF Len(term) >= 2
        THEN /\ search.issued < MaxSearches
             /\ search' = [search EXCEPT !.searchTerm = term,
                                         !.loading = TRUE,
                                         !.pending = Append(search.pending, term),
                                         !.issued = search.issued + 1]
        ELSE search' = [search EXCEPT !.searchTerm = term, !.patients = <<>>]
    /\ SearchFrame

\* handleSearch after its await: the rows are stored
SearchResolves ==
    /\ search.mounted
    /\ \E i \in 1..Len(search.pending) :
        search' = [search EXCEPT !.patients = searchPatients(search.pending[i]),
                                 !.loading = FALSE,
                                 !.pending = Settled(i)]
    /\ SearchFrame

\* handleSearch after its await, the query failed: a toast, the list stays
SearchRejects ==
    /\ search.mounted
    /\ \E i \in 1..Len(search.pending) :
        search' = [search EXCEPT !.loading = FALSE, !.pending = Settled(i),
                                 !.failed = TRUE]
    /\ SearchFrame

PatientSearchInit ==
    /\ call = NoCall
    /\ visit = VisitIdle
    /\ calc = CalcIdle
    /\ db = DbIdle
    /\ cam = CamIdle /\ intake = << >> /\ timers = 0 /\ started = 0 /\ edge = Null
    /\ net = NetIdle
    /\ search = SearchInit

PatientSearchNext ==
    \/ ChangeSearchTerm
    \/ SearchResolves
    \/ SearchRejects

SpecSearch == PatientSearchInit /\ [][PatientSearchNext]_vars

\* C25: once all issued search requests have completed (none of them
\* rejected), the displayed patient list is the result of the search for
\* the current search term, and is empty when the current term has fewer
\* than 2 characters, regardless of the order in which the responses arrive.
C25_ListIsOfCurrentTerm ==
    (search.mounted /\ search.pending = <<>> /\ ~search.failed) =>
        search.patients = IF Len(search.searchTerm) >= 2
                          THEN searchPatients(search.searchTerm)
                          ELSE <<>>

----------------------------------------------------------------------------
(* EpwvCalculator on its own: a parent that renders it with age and mbp    *)
(* props and changes them while it stays mounted.                          *)

\* how many 1500 ms timers are pending at once
MaxCalcTimers == 2

\* the props, in tenths
AgeProps == { Num(670), Num(950), Num(0), Num(-50) }
MbpProps == { Num(1067), Num(933), Num(0) }

\* a render with other props: the effect depends on [age, mbp], starts a
\* calculation when both are positive and does nothing otherwise
PropsChange ==
    /\ calc.mounted
    /\ \E age \in AgeProps, mbp \in MbpProps :
        /\ <<age, mbp>> # <<calc.age, calc.mbp>>
        /\ IF Positive(age) /\ Positive(mbp)
           THEN /\ Len(calc.timers) < MaxCalcTimers
                /\ calc' = [calc EXCEPT
                              !.age = age, !.mbp = mbp,
                              !.isCalculating = TRUE,
                              !.timers = Append(calc.timers, [age |-> age.v, mbp |-> mbp.v])]
           ELSE calc' = [calc EXCEPT !.age = age, !.mbp = mbp]
    /\ UNCHANGED <<call, visit, db, cameraVars, hookVars>>

CalcInit ==
    /\ call = NoCall
    /\ visit = VisitIdle
    /\ \E age \in AgeProps, mbp \in MbpProps : calc = CalcMount(age, mbp)
    /\ db = DbIdle
    /\ cam = CamIdle /\ intake = << >> /\ timers = 0 /\ started = 0 /\ edge = Null
    /\ net = NetIdle /\ search = SearchIdle

CalcNext ==
    \/ PropsChange
    \/ CalcTimerFires

SpecCalc == CalcInit /\ [][CalcNext]_vars

====
